---- MODULE Spec2Model ----
\* Stock ledger of the inventory application: products, transactions and
\* transaction details (ledger lines), with the persistence hooks of
\* inventory/models.py and the delete/edit entry points of inventory/views.py.
\*
\* Quantities and prices are DecimalFields in the source; the model counts them
\* in whole units, quantities from 1 up.  The database runs in Django's default autocommit mode: no
\* source file opens transaction.atomic, so every Model.save() / delete() is
\* committed on its own.
EXTENDS Integers, FiniteSets, Sequences, TLC

VARIABLES
    users,              \* rows of the auth user table
    products,           \* Product rows: pk -> [current_stock, unit_price]
    transactions,       \* Transaction rows: pk -> [transaction_type, created_by]
    nextTransactionId,  \* next Transaction pk
    details,            \* TransactionDetail rows: [id, transaction, product, quantity, unit_price]
    nextDetailId,       \* next TransactionDetail pk
    applied,            \* history: detail pk -> stock delta applied when the row was created
    requests,           \* in-flight TransactionDetail.save() calls (interleaved runs only)
    last                \* the last request served and its outcome

vars == <<users, products, transactions, nextTransactionId,
          details, nextDetailId, applied, requests, last>>

----------------------------------------------------------------------------
\* Bounds of the model

MaxTransactions == 2
MaxDetails == 2
LedgerMaxDetails == 3
MaxQuantity == 2
MaxPrice == 1
MaxStock == 3

\* Bounds of the interleaved runs (the scenario of two sale lines of 6 against 10)
RaceMaxTransactions == 3
RaceMaxStock == 16

\* Bounds of the REST serializer runs
MaxPayload == 2
SerializerMaxDetails == 3

Quantities == 1..MaxQuantity
RaceQuantities == {6, 10}
Prices == 1..MaxPrice

----------------------------------------------------------------------------
\* Data model

\* TransactionDetail.unit_price is nullable: None
NoPrice == -1

\* Transaction.created_by after SET_NULL
NoUser == "none"

StaffUsers == {"staff"}
Users == {"staff", "alice", "bob"}

is_staff(u) == u \in StaffUsers

TRANSACTION_TYPES == {"purchase", "sale", "return", "adjustment"}

Products == {1, 2}

----------------------------------------------------------------------------
\* TransactionDetail: the stock rules

\* the stock check with its comparison reversed
InsufficientStockReversed(type, stock, quantity) ==
    type \in {"sale"} /\ stock > quantity

\* clean(): the stock check of an outgoing transaction
InsufficientStock(type, stock, quantity) ==
    type \in {"sale"} /\ stock < quantity

\* the delta with only purchases counted as incoming
SaveDeltaPurchaseOnly(type, quantity) ==
    IF type \in {"purchase"} THEN quantity ELSE 0 - quantity

\* save(), is_new branch: the delta applied to product.current_stock
SaveDelta(type, quantity) ==
    IF type \in {"purchase", "return", "adjustment"} THEN quantity ELSE 0 - quantity

\* delete(): the delta applied to product.current_stock
DeleteDelta(type, quantity) ==
    IF type \in {"purchase", "return", "adjustment"} THEN 0 - quantity ELSE quantity

\* every save() taken for the save of a new row
IsNewAlways(pk) == TRUE

\* save(): is_new = not self.pk
IsNew(pk) == pk = 0

\* the line's unit price written back whether supplied or not
SavePriceAlways(old, unit_price) == unit_price

\* save(): the unit price written back to the product
SavePrice(old, unit_price) ==
    IF unit_price # NoPrice THEN unit_price ELSE old

\* Meta.constraints: unique_transaction_product, checked by the INSERT
UniqueViolation(rows, t, p) ==
    \E d \in rows : d.transaction = t /\ d.product = p

\* signed quantity of a ledger line under its transaction's current type
Signed(d) == SaveDelta(transactions[d.transaction].transaction_type, d.quantity)

RECURSIVE SumSigned(_)
SumSigned(rows) ==
    IF rows = {} THEN 0
    ELSE LET d == CHOOSE x \in rows : TRUE
         IN  Signed(d) + SumSigned(rows \ {d})

LinesOf(p) == {d \in details : d.product = p}
LinesIn(t) == {d \in details : d.transaction = t}

----------------------------------------------------------------------------
\* Outcome record of a request

\* the response carries no report
NoReport == <<>>

\* the nested 'details' payload of a REST request: absent (None), or a list of
\* lines (product, quantity, unit_price); an outcome records whether the
\* request carried one
NoDetails == [given |-> FALSE, lines |-> <<>>]
Details(lines) == [given |-> TRUE, lines |-> lines]

Outcome(op, u, t, p, q, result) ==
    [op |-> op, user |-> u, transaction |-> t, product |-> p,
     quantity |-> q, result |-> result, report |-> NoReport,
     details |-> FALSE]

\* A TransactionDetail instance being saved: its fields, and the attributes of
\* its cached self.product as they were read from the database
Idle == [pc |-> "idle", transaction |-> 0, product |-> 0, quantity |-> 0,
         unit_price |-> NoPrice, current_stock |-> 0, product_price |-> 0,
         result |-> "none"]

Requests == {1, 2, 3}

\* The catalogue holds the products with the field defaults (current_stock 0,
\* unit_price 0.00), the users exist, and there is no transaction yet.
Init ==
    /\ users = Users
    /\ products = [p \in Products |-> [current_stock |-> 0, unit_price |-> 0]]
    /\ transactions = <<>>
    /\ nextTransactionId = 1
    /\ details = {}
    /\ nextDetailId = 1
    /\ applied = <<>>
    /\ requests = [r \in Requests |-> Idle]
    /\ last = Outcome("none", NoUser, 0, 0, 0, "none")

----------------------------------------------------------------------------
\* Sequential operations: one request at a time, each handler as a whole

\* TransactionCreateView.form_valid: created_by is the requesting user
TransactionCreateUpTo(u, type, max) ==
    /\ u \in users
    /\ nextTransactionId <= max
    /\ transactions' = (nextTransactionId :>
                          [transaction_type |-> type, created_by |-> u]) @@ transactions
    /\ nextTransactionId' = nextTransactionId + 1
    /\ last' = Outcome("transaction_create", u, nextTransactionId, 0, 0, "ok")
    /\ UNCHANGED <<users, products, details, nextDetailId, applied, requests>>

TransactionCreate(u, type) == TransactionCreateUpTo(u, type, MaxTransactions)

\* The row INSERT of super().save(): rejected by the uniqueness constraint, or
\* the row is stored under a fresh pk
InsertDetail(t, p, q, up, delta) ==
    IF UniqueViolation(details, t, p)
    THEN /\ last' = Outcome("detail_create", NoUser, t, p, q, "IntegrityError")
         /\ UNCHANGED <<details, nextDetailId, applied>>
    ELSE /\ details' = details \cup
               {[id |-> nextDetailId, transaction |-> t, product |-> p,
                 quantity |-> q, unit_price |-> up]}
         /\ nextDetailId' = nextDetailId + 1
         /\ applied' = (nextDetailId :> delta) @@ applied
         /\ last' = Outcome("detail_create", NoUser, t, p, q, "ok")

\* TransactionDetail.save() of a new row (is_new) on a persisted transaction,
\* the product read when save() runs: clean(), the stock and price written by
\* product.save(), then the INSERT.  max bounds the primary keys handed out.
DetailCreateUpTo(t, p, q, up, max) ==
    /\ t \in DOMAIN transactions
    /\ p \in DOMAIN products
    /\ nextDetailId <= max
    /\ \A r \in Requests : requests[r].pc = "idle"
    /\ LET type  == transactions[t].transaction_type
           stock == products[p].current_stock
           delta == SaveDelta(type, q)
       IN  IF InsufficientStock(type, stock, q)
           THEN /\ last' = Outcome("detail_create", NoUser, t, p, q, "ValidationError")
                /\ UNCHANGED <<products, details, nextDetailId, applied>>
           ELSE /\ stock + delta \in (0 - MaxStock)..MaxStock
                /\ products' = [products EXCEPT ![p] =
                       [current_stock |-> stock + delta,
                        unit_price |-> SavePrice(products[p].unit_price, up)]]
                /\ InsertDetail(t, p, q, up, delta)
    /\ UNCHANGED <<users, transactions, nextTransactionId, requests>>

DetailCreate(t, p, q, up) == DetailCreateUpTo(t, p, q, up, MaxDetails)

\* TransactionDetail.save() of a row read from the table, with its quantity
\* and unit price set by the caller: the is_new branch is skipped and the row
\* is written by an UPDATE; transaction and product are the row's own, so the
\* unique constraint cannot fire
DetailUpdate(d, q, up) ==
    /\ d \in details
    /\ \A r \in Requests : requests[r].pc = "idle"
    /\ LET type  == transactions[d.transaction].transaction_type
           stock == products[d.product].current_stock
           delta == SaveDelta(type, q)
           row   == [d EXCEPT !.quantity = q, !.unit_price = up]
       IN  IF IsNew(d.id) /\ InsufficientStock(type, stock, q)
           THEN /\ last' = Outcome("detail_update", NoUser, d.transaction, d.product,
                                   q, "ValidationError")
                /\ UNCHANGED <<products, details>>
           ELSE /\ IF IsNew(d.id)
                   THEN /\ stock + delta \in (0 - MaxStock)..MaxStock
                        /\ products' = [products EXCEPT ![d.product] =
                              [current_stock |-> stock + delta,
                               unit_price |-> SavePrice(products[d.product].unit_price, up)]]
                   ELSE UNCHANGED products
                /\ details' = (details \ {d}) \cup {row}
                /\ last' = Outcome("detail_update", NoUser, d.transaction, d.product,
                                   q, "ok")
    /\ UNCHANGED <<users, transactions, nextTransactionId, nextDetailId, applied, requests>>

\* TransactionDetail.delete(): the reverse adjustment, then the row DELETE
DetailDelete(d) ==
    /\ d \in details
    /\ LET type  == transactions[d.transaction].transaction_type
           stock == products[d.product].current_stock
           delta == DeleteDelta(type, d.quantity)
       IN  /\ stock + delta \in (0 - MaxStock)..MaxStock
           /\ products' = [products EXCEPT ![d.product].current_stock = stock + delta]
    /\ details' = details \ {d}
    /\ applied' = [i \in (DOMAIN applied) \ {d.id} |-> applied[i]]
    /\ last' = Outcome("detail_delete", NoUser, d.transaction, d.product, d.quantity, "ok")
    /\ UNCHANGED <<users, transactions, nextTransactionId, nextDetailId, requests>>

\* on_delete=CASCADE: the collector removes the dependent TransactionDetail
\* rows with a DELETE statement; TransactionDetail.delete() is not called, so
\* no product is touched
Cascade(rows) ==
    /\ details' = details \ rows
    /\ applied' = [i \in (DOMAIN applied) \ {d.id : d \in rows} |-> applied[i]]

\* inventory_transaction_change, POST with a valid TransactionForm: the
\* transaction's type is saved; its details and the products are not touched
TransactionChange(u, t, type) ==
    /\ u \in users
    /\ t \in DOMAIN transactions
    /\ transactions' = [transactions EXCEPT ![t].transaction_type = type]
    /\ last' = Outcome("transaction_change", u, t, 0, 0, "ok")
    /\ UNCHANGED <<users, products, nextTransactionId, details, nextDetailId,
                   applied, requests>>

\* transaction_delete, line 110: who may delete
MayDelete(u, t) == is_staff(u) \/ transactions[t].created_by = u

\* Transaction.delete(): the row and, by cascade, its details
DeleteTransaction(t) ==
    /\ transactions' = [i \in (DOMAIN transactions) \ {t} |-> transactions[i]]
    /\ Cascade(LinesIn(t))

\* transaction_delete (UI), POST by an authenticated user
TransactionDeleteUI(u, t) ==
    /\ u \in users
    /\ t \in DOMAIN transactions
    /\ IF MayDelete(u, t)
       THEN /\ DeleteTransaction(t)
            /\ last' = Outcome("transaction_delete", u, t, 0, 0, "ok")
       ELSE /\ last' = Outcome("transaction_delete", u, t, 0, 0, "PermissionDenied")
            /\ UNCHANGED <<transactions, details, applied>>
    /\ UNCHANGED <<users, products, nextTransactionId, nextDetailId, requests>>

\* TransactionViewSet (REST), DELETE: ModelViewSet.destroy, no permission check
TransactionDeleteAPI(u, t) ==
    /\ u \in users
    /\ t \in DOMAIN transactions
    /\ DeleteTransaction(t)
    /\ last' = Outcome("api_transaction_delete", u, t, 0, 0, "ok")
    /\ UNCHANGED <<users, products, nextTransactionId, nextDetailId, requests>>

\* Product.delete(): the row and, by cascade, its details
DeleteProduct(p) ==
    /\ products' = [i \in (DOMAIN products) \ {p} |-> products[i]]
    /\ Cascade(LinesOf(p))

\* ProductDeleteView.delete
ProductDeleteUI(u, p) ==
    /\ u \in users
    /\ p \in DOMAIN products
    /\ IF products[p].current_stock # 0
       THEN /\ last' = Outcome("product_delete", u, 0, p, 0, "error")
            /\ UNCHANGED <<products, details, applied>>
       ELSE /\ DeleteProduct(p)
            /\ last' = Outcome("product_delete", u, 0, p, 0, "ok")
    /\ UNCHANGED <<users, transactions, nextTransactionId, nextDetailId, requests>>

\* ProductViewSet (REST), DELETE: ModelViewSet.destroy, no stock check
ProductDeleteAPI(u, p) ==
    /\ u \in users
    /\ p \in DOMAIN products
    /\ DeleteProduct(p)
    /\ last' = Outcome("api_product_delete", u, 0, p, 0, "ok")
    /\ UNCHANGED <<users, transactions, nextTransactionId, nextDetailId, requests>>

\* Transaction.created_by, on_delete=SET_NULL: deleting a user clears it
UserDelete(u) ==
    /\ u \in users
    /\ users' = users \ {u}
    /\ transactions' = [i \in DOMAIN transactions |->
          IF transactions[i].created_by = u
          THEN [transactions[i] EXCEPT !.created_by = NoUser]
          ELSE transactions[i]]
    /\ last' = Outcome("user_delete", u, 0, 0, 0, "ok")
    /\ UNCHANGED <<products, nextTransactionId, details, nextDetailId, applied, requests>>

----------------------------------------------------------------------------
\* Interleaved runs: TransactionDetail.save() of a new row, one database access
\* per step.  Each request slot serves one save().

\* The instance is built with its product: self.product holds the row as read
\* now.  Slots are taken in the order the requests arrive.
SaveBegin(r, t, p, q, up) ==
    /\ requests[r].pc = "idle"
    /\ \A k \in Requests : k < r => requests[k].pc # "idle"
    /\ t \in DOMAIN transactions
    /\ p \in DOMAIN products
    /\ requests' = [requests EXCEPT ![r] =
          [pc |-> "loaded", transaction |-> t, product |-> p, quantity |-> q,
           unit_price |-> up,
           current_stock |-> products[p].current_stock,
           product_price |-> products[p].unit_price,
           result |-> "none"]]
    /\ UNCHANGED <<users, products, transactions, nextTransactionId, details,
                   nextDetailId, applied, last>>

\* self.clean(): the stock check against self.product.current_stock
SaveClean(r) ==
    /\ requests[r].pc = "loaded"
    /\ LET req  == requests[r]
           type == transactions[req.transaction].transaction_type
       IN  IF InsufficientStock(type, req.current_stock, req.quantity)
           THEN requests' = [requests EXCEPT ![r].pc = "done",
                                             ![r].result = "ValidationError"]
           ELSE requests' = [requests EXCEPT ![r].pc = "checked"]
    /\ UNCHANGED <<users, products, transactions, nextTransactionId, details,
                   nextDetailId, applied, last>>

\* product.current_stock += / -= quantity on the instance, then product.save():
\* the UPDATE writes the instance's fields over the row
SaveProduct(r) ==
    /\ requests[r].pc = "checked"
    /\ LET req   == requests[r]
           type  == transactions[req.transaction].transaction_type
           stock == req.current_stock + SaveDelta(type, req.quantity)
       IN  /\ stock \in (0 - RaceMaxStock)..RaceMaxStock
           /\ products' = [products EXCEPT ![req.product] =
                  [current_stock |-> stock,
                   unit_price |-> SavePrice(req.product_price, req.unit_price)]]
           /\ requests' = [requests EXCEPT ![r].pc = "saved",
                                           ![r].current_stock = stock]
    /\ UNCHANGED <<users, transactions, nextTransactionId, details, nextDetailId,
                   applied, last>>

\* super().save(): the INSERT
SaveInsert(r) ==
    /\ requests[r].pc = "saved"
    /\ LET req   == requests[r]
           type  == transactions[req.transaction].transaction_type
       IN  /\ InsertDetail(req.transaction, req.product, req.quantity,
                           req.unit_price, SaveDelta(type, req.quantity))
           /\ requests' = [requests EXCEPT ![r].pc = "done", ![r].result = last'.result]
    /\ UNCHANGED <<users, products, transactions, nextTransactionId>>

----------------------------------------------------------------------------
\* Stock report aggregation

\* Sum() over no rows: None
NoTotal == -1

\* a Case whose When condition was dropped
CaseQuantityAlways(d, types) == d.quantity

\* Case(When(transaction_type in types, then=quantity), default=Value(0))
CaseQuantity(d, types) ==
    IF transactions[d.transaction].transaction_type \in types THEN d.quantity ELSE 0

RECURSIVE SumCase(_, _)
SumCase(rows, types) ==
    IF rows = {} THEN 0
    ELSE LET d == CHOOSE x \in rows : TRUE
         IN  CaseQuantity(d, types) + SumCase(rows \ {d}, types)

\* Product.objects.annotate(Sum(Case(...))): the LEFT JOIN gives a product
\* without details one row of NULLs, on which the Case yields its default 0
AnnotateSum(rows, types) == SumCase(rows, types)

\* details.aggregate(Sum(Case(...))): None when there is no row
AggregateSum(rows, types) ==
    IF rows = {} THEN NoTotal ELSE SumCase(rows, types)

\* totals[...] or 0
OrZero(x) == IF x = NoTotal \/ x = 0 THEN 0 ELSE x

\* inventory_report: every product annotated with total_in and total_out
InventoryReport(u) ==
    /\ u \in users
    /\ last' = [Outcome("inventory_report", u, 0, 0, 0, "ok") EXCEPT !.report =
          [p \in DOMAIN products |->
             [total_in  |-> AnnotateSum(LinesOf(p), {"purchase", "return", "adjustment"}),
              total_out |-> AnnotateSum(LinesOf(p), {"sale"})]]]
    /\ UNCHANGED <<users, products, transactions, nextTransactionId, details,
                   nextDetailId, applied, requests>>

\* ProductStockMovementsView.get_context_data: the totals of one product
ProductStockMovements(u, p) ==
    /\ u \in users
    /\ p \in DOMAIN products
    /\ last' = [Outcome("product_stock_movements", u, 0, p, 0, "ok") EXCEPT !.report =
          (p :> [total_in  |-> OrZero(AggregateSum(LinesOf(p),
                                         {"purchase", "return", "adjustment"})),
                 total_out |-> OrZero(AggregateSum(LinesOf(p), {"sale"}))])]
    /\ UNCHANGED <<users, products, transactions, nextTransactionId, details,
                   nextDetailId, applied, requests>>

----------------------------------------------------------------------------
\* TransactionSerializer: nested writes

\* TransactionSerializer.validate: a sale needs at least one line
DetailsRequired(type, lines) == type \in {"sale"} /\ lines = <<>>

\* The loop of TransactionDetail.objects.create calls over the payload, on the
\* tables db.  Each line's product is the instance PrimaryKeyRelatedField
\* loaded while the request was validated (snapshot), so its save() computes
\* from the stock and price read then.  The loop ends at the first exception;
\* every statement before it is committed (autocommit, no atomic block).
RECURSIVE CreateDetails(_, _, _, _, _)
CreateDetails(t, type, lines, snapshot, db) ==
    IF lines = <<>> THEN db
    ELSE LET line    == Head(lines)
             p       == line.product
             stock   == snapshot[p].current_stock
             delta   == SaveDelta(type, line.quantity)
             saved   == [db.products EXCEPT ![p] =
                           [current_stock |-> stock + delta,
                            unit_price |-> SavePrice(snapshot[p].unit_price,
                                                     line.unit_price)]]
             row     == [id |-> db.nextDetailId, transaction |-> t, product |-> p,
                         quantity |-> line.quantity, unit_price |-> line.unit_price]
         IN  IF InsufficientStock(type, stock, line.quantity)
             THEN [db EXCEPT !.result = "ValidationError"]
             ELSE IF UniqueViolation(db.details, t, p)
             THEN [db EXCEPT !.products = saved, !.result = "IntegrityError"]
             ELSE CreateDetails(t, type, Tail(lines), snapshot,
                     [db EXCEPT !.products = saved,
                                !.details = db.details \cup {row},
                                !.nextDetailId = db.nextDetailId + 1,
                                !.applied = (db.nextDetailId :> delta) @@ db.applied])

\* the tables written by a nested write, within the bounds of the model
Commit(db) ==
    /\ db.nextDetailId <= SerializerMaxDetails + 1
    /\ \A p \in DOMAIN db.products :
          db.products[p].current_stock \in (0 - MaxStock)..MaxStock
    /\ products' = db.products
    /\ details' = db.details
    /\ nextDetailId' = db.nextDetailId
    /\ applied' = db.applied

\* TransactionSerializer.validate and create: the transaction row, then one
\* TransactionDetail per payload line
ApiTransactionCreate(u, type, lines) ==
    /\ u \in users
    /\ nextTransactionId <= MaxTransactions
    /\ \A r \in Requests : requests[r].pc = "idle"
    /\ IF DetailsRequired(type, lines)
       THEN /\ last' = [Outcome("api_transaction_create", u, 0, 0, 0, "invalid")
                           EXCEPT !.details = TRUE]
            /\ UNCHANGED <<transactions, nextTransactionId, products, details,
                           nextDetailId, applied>>
       ELSE LET t  == nextTransactionId
                db == CreateDetails(t, type, lines, products,
                         [products |-> products, details |-> details,
                          nextDetailId |-> nextDetailId, applied |-> applied,
                          result |-> "ok"])
            IN  /\ transactions' = (t :> [transaction_type |-> type,
                                          created_by |-> u]) @@ transactions
                /\ nextTransactionId' = t + 1
                /\ Commit(db)
                /\ last' = [Outcome("api_transaction_create", u, t, 0, 0, db.result)
                               EXCEPT !.details = TRUE]
    /\ UNCHANGED <<users, requests>>

\* TransactionSerializer.validate and update: the transaction's fields are
\* saved; when 'details' is supplied the transaction's lines are removed with
\* a queryset delete (TransactionDetail.delete() is not called) and the
\* payload's lines are created
ApiTransactionUpdate(u, t, type, payload) ==
    /\ u \in users
    /\ t \in DOMAIN transactions
    /\ \A r \in Requests : requests[r].pc = "idle"
    /\ IF DetailsRequired(type, payload.lines)
       THEN /\ last' = [Outcome("api_transaction_update", u, t, 0, 0, "invalid")
                           EXCEPT !.details = payload.given]
            /\ UNCHANGED <<transactions, products, details, nextDetailId, applied>>
       ELSE /\ transactions' = [transactions EXCEPT ![t].transaction_type = type]
            /\ IF payload.given
               THEN LET removed == LinesIn(t)
                        db == CreateDetails(t, type, payload.lines, products,
                                 [products |-> products,
                                  details |-> details \ removed,
                                  nextDetailId |-> nextDetailId,
                                  applied |-> [i \in (DOMAIN applied) \
                                                 {d.id : d \in removed} |-> applied[i]],
                                  result |-> "ok"])
                    IN  /\ Commit(db)
                        /\ last' = [Outcome("api_transaction_update", u, t, 0, 0,
                                            db.result) EXCEPT !.details = payload.given]
               ELSE /\ last' = [Outcome("api_transaction_update", u, t, 0, 0, "ok")
                                   EXCEPT !.details = payload.given]
                    /\ UNCHANGED <<products, details, nextDetailId, applied>>
    /\ UNCHANGED <<users, nextTransactionId, requests>>

----------------------------------------------------------------------------
\* Specifications

TransactionIds == 1..MaxTransactions
UnitPrices == {NoPrice} \cup Prices
Clerks == {"alice"}

\* line creation and deletion only, with at most max lines ever created
LedgerNextUpTo(max) ==
    \/ \E u \in Clerks, type \in TRANSACTION_TYPES : TransactionCreate(u, type)
    \/ \E t \in TransactionIds, p \in Products, q \in Quantities, up \in UnitPrices :
          DetailCreateUpTo(t, p, q, up, max)
    \/ \E d \in details : DetailDelete(d)

SpecLedger == Init /\ [][LedgerNextUpTo(LedgerMaxDetails)]_vars

LedgerNext == LedgerNextUpTo(MaxDetails)

\* the transaction edit view
EditNext ==
    \E u \in Clerks, t \in TransactionIds, type \in TRANSACTION_TYPES :
        TransactionChange(u, t, type)

\* the transaction delete entry points, and the removal of a user
TransactionDeleteNext ==
    \/ \E u \in Users, t \in TransactionIds : TransactionDeleteUI(u, t)
    \/ \E u \in Users, t \in TransactionIds : TransactionDeleteAPI(u, t)
    \/ \E u \in Clerks : UserDelete(u)

\* the product delete entry points
ProductDeleteNext ==
    \/ \E u \in Clerks, p \in Products : ProductDeleteUI(u, p)
    \/ \E u \in Clerks, p \in Products : ProductDeleteAPI(u, p)

\* the report views
ReportNext ==
    \/ \E u \in Clerks : InventoryReport(u)
    \/ \E u \in Clerks, p \in Products : ProductStockMovements(u, p)

\* saves of persisted ledger lines
UpdateNext ==
    \E d \in details, q \in Quantities, up \in UnitPrices : DetailUpdate(d, q, up)

\* nested payloads of the REST requests
PayloadQuantities == {1}
PayloadLines == [product : Products, quantity : PayloadQuantities, unit_price : UnitPrices]
Payloads == UNION {[1..n -> PayloadLines] : n \in 0..MaxPayload}

SerializerTypes == {"purchase", "sale"}

\* the REST transaction endpoints' serializer
SerializerNext ==
    \/ \E u \in Clerks, type \in SerializerTypes, lines \in Payloads :
          ApiTransactionCreate(u, type, lines)
    \/ \E u \in Clerks, t \in TransactionIds, type \in SerializerTypes,
          payload \in {NoDetails} \cup {Details(lines) : lines \in Payloads} :
          ApiTransactionUpdate(u, t, type, payload)

SpecEdit == Init /\ [][LedgerNext \/ EditNext]_vars

SpecSerializer == Init /\ [][SerializerNext]_vars

SpecUpdate == Init /\ [][LedgerNext \/ UpdateNext]_vars

SpecReport == Init /\ [][LedgerNext \/ ReportNext]_vars

SpecTransactionDelete == Init /\ [][LedgerNext \/ TransactionDeleteNext]_vars

SpecProductDelete == Init /\ [][LedgerNext \/ ProductDeleteNext]_vars

\* every sequential entry point
Next ==
    \/ LedgerNext
    \/ EditNext
    \/ TransactionDeleteNext
    \/ ProductDeleteNext
    \/ ReportNext
    \/ UpdateNext
    \/ SerializerNext

Spec == Init /\ [][Next]_vars

\* interleaved line creations against one product
RaceProducts == {1}
RaceTypes == {"purchase", "sale"}
RacePrices == {NoPrice}

RaceNext ==
    \/ \E u \in Clerks, type \in RaceTypes :
          TransactionCreateUpTo(u, type, RaceMaxTransactions)
    \/ \E r \in Requests, t \in 1..RaceMaxTransactions, p \in RaceProducts,
          q \in RaceQuantities, up \in RacePrices : SaveBegin(r, t, p, q, up)
    \/ \E r \in Requests : SaveClean(r)
    \/ \E r \in Requests : SaveProduct(r)
    \/ \E r \in Requests : SaveInsert(r)

SpecRace == Init /\ [][RaceNext]_vars

----------------------------------------------------------------------------
\* Properties

\* every product's stock counter equals the signed sum of its ledger lines
StockMatchesLedger ==
    \A p \in DOMAIN products : products[p].current_stock = SumSigned(LinesOf(p))

IncomingTypes == {"purchase", "return", "adjustment"}

\* C1: after any sequence of line creation attempts (accepted or rejected) and
\* line deletions, every product's current_stock equals the signed sum of the
\* quantities of its existing ledger lines.
C1_StockEqualsSignedSum == StockMatchesLedger

\* C2: a line creation on a sale transaction with quantity greater than the
\* product's current_stock ends in the insufficient-stock ValidationError and
\* leaves the products (stock and unit price) and the ledger lines unchanged.
C2_SaleOverStockRejected ==
    [][(/\ last'.op = "detail_create"
        /\ transactions[last'.transaction].transaction_type = "sale"
        /\ last'.quantity > products[last'.product].current_stock)
       => (/\ last'.result = "ValidationError"
           /\ products' = products
           /\ details' = details)]_vars

\* C2 witness: a sale line was refused while the product had stock
C2_Witness ==
    /\ last.op = "detail_create"
    /\ last.result = "ValidationError"
    /\ products[last.product].current_stock > 0
    /\ last.quantity > products[last.product].current_stock

\* C3: a line creation of quantity Q on a purchase, return or adjustment
\* transaction is never refused by the stock check, and when the line is
\* created the product's current_stock has grown by exactly Q.
C3_PurchaseAddsQuantity ==
    [][(/\ last'.op = "detail_create"
        /\ transactions[last'.transaction].transaction_type \in IncomingTypes)
       => (/\ last'.result # "ValidationError"
           /\ last'.result = "ok" =>
                /\ products'[last'.product].current_stock
                     = products[last'.product].current_stock + last'.quantity
                /\ \E d \in details' \ details :
                     /\ d.transaction = last'.transaction
                     /\ d.product = last'.product
                     /\ d.quantity = last'.quantity)]_vars

\* C3 witness: a purchase line was created on a product whose stock was negative
C3_Witness ==
    /\ last.op = "detail_create"
    /\ last.result = "ok"
    /\ last.transaction \in DOMAIN transactions
    /\ transactions[last.transaction].transaction_type \in IncomingTypes
    /\ products[last.product].current_stock - last.quantity < 0

\* C4: deleting a ledger line changes the product's current_stock by exactly
\* the negation of the delta applied when that line was created, also after
\* the type of its transaction was edited.
C4_DeleteReversesCreation ==
    [][last'.op = "detail_delete"
       => \A d \in details \ details' :
             products'[d.product].current_stock
               = products[d.product].current_stock - applied[d.id]]_vars

\* C5: deleting a transaction through transaction_delete removes all of its
\* ledger lines and takes each line's signed quantity back out of its product's
\* current_stock, so that stock that matched the ledger matches it again.
C5_TransactionDeleteReversesStock ==
    [][(last'.op = "transaction_delete" /\ last'.result = "ok")
       => (/\ \A d \in details' : d.transaction # last'.transaction
           /\ \A p \in DOMAIN products :
                products'[p].current_stock
                  = products[p].current_stock
                      - SumSigned({d \in LinesIn(last'.transaction) : d.product = p})
           /\ StockMatchesLedger => StockMatchesLedger')]_vars

\* C6: over both delete entry points (UI and REST), a delete request by a user
\* who is neither the transaction's creator nor staff leaves the transaction,
\* the ledger lines and the products untouched.
C6_OnlyCreatorOrStaffDeletes ==
    [][(/\ last'.op \in {"transaction_delete", "api_transaction_delete"}
        /\ last'.transaction \in DOMAIN transactions
        /\ ~ (\/ last'.user \in StaffUsers
              \/ transactions[last'.transaction].created_by = last'.user))
       => (/\ transactions' = transactions
           /\ details' = details
           /\ products' = products)]_vars

\* C7: over both product delete entry points (UI and REST), a delete request
\* for a product whose current_stock is not 0 leaves the product and the
\* ledger lines in place.
C7_ProductWithStockNotDeleted ==
    [][(/\ last'.op \in {"product_delete", "api_product_delete"}
        /\ last'.product \in DOMAIN products
        /\ products[last'.product].current_stock # 0)
       => (/\ products' = products
           /\ details' = details)]_vars

Finished(r) == requests[r].pc = "done"
Quiet == \A r \in Requests : requests[r].pc \in {"idle", "done"}

\* C8: two sale-line creations of quantity 6 against a product with stock 10,
\* each having read the stock (10) before the other wrote its adjustment, both
\* succeed and leave the product's current_stock at -2.
C8_TwoSalesLeaveMinusTwo ==
    \A r1, r2 \in Requests :
       (/\ r1 # r2
        /\ Quiet
        /\ Finished(r1) /\ requests[r1].result = "ok"
        /\ Finished(r2) /\ requests[r2].result = "ok"
        /\ requests[r1].product = requests[r2].product
        /\ transactions[requests[r1].transaction].transaction_type = "sale"
        /\ transactions[requests[r2].transaction].transaction_type = "sale"
        /\ requests[r1].quantity = 6 /\ requests[r2].quantity = 6
        /\ requests[r1].current_stock + 6 = 10
        /\ requests[r2].current_stock + 6 = 10
        /\ SumSigned(LinesOf(requests[r1].product)) = 0 - 2)
       => products[requests[r1].product].current_stock = 0 - 2

\* C9: the stock adjustment of a line creation is atomic: once the interleaved
\* creations have all finished, none of them refused by the uniqueness
\* constraint, every product's current_stock reflects the delta of every line
\* created (no adjustment is overwritten).
C9_NoLostAdjustment ==
    (Quiet /\ \A r \in Requests : requests[r].result # "IntegrityError")
       => StockMatchesLedger

\* C10: there is at most one ledger line per (transaction, product) pair, and a
\* creation refused for a pair that already has a line leaves the products
\* (stock and unit price) and the ledger lines unchanged.
C10_DuplicateRejectedUnchanged ==
    [][/\ \A d1, d2 \in details' :
            (d1.transaction = d2.transaction /\ d1.product = d2.product) => d1 = d2
       /\ (/\ last'.op = "detail_create"
           /\ UniqueViolation(details, last'.transaction, last'.product))
          => (/\ last'.result # "ok"
              /\ products' = products
              /\ details' = details)]_vars

\* the quantities of a set of ledger lines added up
RECURSIVE QuantitySum(_)
QuantitySum(rows) ==
    IF rows = {} THEN 0
    ELSE LET d == CHOOSE x \in rows : TRUE
         IN  d.quantity + QuantitySum(rows \ {d})

LinesOfKind(p, types) ==
    {d \in LinesOf(p) : transactions[d.transaction].transaction_type \in types}

\* C11: the stock report (all products, or one product's movements) gives for
\* each product total_in = the quantities of its lines on purchase, return and
\* adjustment transactions and total_out = the quantities of its lines on sale
\* transactions, both 0 without lines, and computing it changes no product,
\* transaction or ledger line.
C11_ReportTotals ==
    [][last'.op \in {"inventory_report", "product_stock_movements"}
       => (/\ (last'.op = "inventory_report" => DOMAIN last'.report = DOMAIN products)
           /\ (last'.op = "product_stock_movements"
                 => DOMAIN last'.report = {last'.product})
           /\ \A p \in DOMAIN last'.report :
                /\ last'.report[p].total_in = QuantitySum(LinesOfKind(p, IncomingTypes))
                /\ last'.report[p].total_out = QuantitySum(LinesOfKind(p, {"sale"}))
                /\ LinesOf(p) = {} =>
                     last'.report[p].total_in = 0 /\ last'.report[p].total_out = 0
           /\ UNCHANGED <<users, products, transactions, nextTransactionId,
                          details, nextDetailId, applied>>)]_vars

\* C11 witness: a report over a product with incoming and outgoing lines and a
\* product without lines
C11_Witness ==
    /\ last.op = "inventory_report"
    /\ \E p \in DOMAIN last.report :
          last.report[p].total_in > 0 /\ last.report[p].total_out > 0
    /\ \E p \in DOMAIN last.report :
          LinesOf(p) = {} /\ last.report[p].total_in = 0 /\ last.report[p].total_out = 0

\* C12: saving an already-persisted ledger line (an update, for instance with
\* a changed quantity) is accepted without a stock check, writes the line, and
\* leaves every product's current_stock and unit_price unchanged; of the
\* TransactionDetail operations only creation and deletion change a product.
C12_UpdateLeavesProduct ==
    [][/\ last'.op = "detail_update"
          => /\ last'.result = "ok"
             /\ products' = products
             /\ \E d \in details' :
                   /\ d.transaction = last'.transaction
                   /\ d.product = last'.product
                   /\ d.quantity = last'.quantity
       /\ (last'.op \in {"detail_create", "detail_delete", "detail_update"}
             /\ products' # products)
          => last'.op \in {"detail_create", "detail_delete"}]_vars

\* C12 witness: a sale line updated to a quantity above the product's stock,
\* and the stock no longer the signed sum of the lines
C12_Witness ==
    /\ last.op = "detail_update"
    /\ last.result = "ok"
    /\ transactions[last.transaction].transaction_type = "sale"
    /\ products[last.product].current_stock < last.quantity
    /\ \E d \in details :
          d.transaction = last.transaction /\ d.product = last.product
             /\ d.quantity = last.quantity /\ applied[d.id] # Signed(d)

\* C13: a successful ledger-line creation sets the product's unit_price to the
\* line's unit_price when one was supplied and leaves it unchanged when none
\* was supplied, no other product's price changes, and deleting a ledger line
\* changes no product's unit_price.
C13_PriceOverwrite ==
    [][/\ (last'.op = "detail_create" /\ last'.result = "ok")
          => \E n \in details' \ details :
                /\ n.product = last'.product
                /\ products'[n.product].unit_price =
                      (IF n.unit_price = NoPrice THEN products[n.product].unit_price
                                                 ELSE n.unit_price)
                /\ \A p \in DOMAIN products \ {n.product} :
                      products'[p].unit_price = products[p].unit_price
       /\ last'.op = "detail_delete"
          => \A p \in DOMAIN products :
                products'[p].unit_price = products[p].unit_price]_vars

\* C13 witness: the only priced line of a product deleted, the product still
\* carrying that line's price
C13_Witness ==
    /\ last.op = "detail_delete"
    /\ LinesOf(last.product) = {}
    /\ products[last.product].unit_price \in Prices

\* C14: a REST transaction update that supplies a nested ledger-line payload
\* and succeeds (the transaction's lines removed, the payload's lines created)
\* leaves every product's current_stock equal to the signed sum of its ledger
\* lines, when that held before the update: the removed lines' contributions
\* are reversed.
C14_ApiUpdateReversesRemovedLines ==
    [][(/\ last'.op = "api_transaction_update"
        /\ last'.details
        /\ last'.result = "ok"
        /\ StockMatchesLedger)
       => StockMatchesLedger']_vars

\* C15: a nested transaction creation through TransactionSerializer.create in
\* which the creation of a line is rejected (insufficient stock on a sale, or a
\* duplicate product) leaves no transaction row and no ledger line of the
\* request, and every product's current_stock and unit_price as they were.
C15_ApiCreateAllOrNothing ==
    [][(/\ last'.op = "api_transaction_create"
        /\ last'.result \in {"ValidationError", "IntegrityError"})
       => (/\ transactions' = transactions
           /\ details' = details
           /\ products' = products)]_vars

\* C16: an edit through inventory_transaction_change leaves every product's
\* current_stock equal to the signed sum of its ledger lines, each line signed
\* by its transaction's type after the edit, when that held before the edit.
C16_TypeEditKeepsStockEqualToLedger ==
    [][(/\ last'.op = "transaction_change"
        /\ last'.result = "ok"
        /\ StockMatchesLedger)
       => StockMatchesLedger']_vars

====
